---- MODULE Spec2Model ----
(***************************************************************************)
(* Model of the Asterisk API backend (src/main.py): the mock registry      *)
(* (mock_store), the check-connection handler with its AMI session, the    *)
(* mock-connect / clear-mocks / disconnect-call / mock-status handlers,    *)
(* and the pure helpers they use.                                          *)
(*                                                                         *)
(* Text is modelled as a sequence of one-character strings, so that the    *)
(* helpers (normalisation, range expansion, splitting, parsing, the digit  *)
(* run search) are computed the way the code computes them.                *)
(***************************************************************************)
EXTENDS Integers, Sequences, FiniteSets, TLC

(***************************************************************************)
(* Python text primitives                                                  *)
(***************************************************************************)
None == <<"<None>">>

Digits == {"0", "1", "2", "3", "4", "5", "6", "7", "8", "9"}

IsDigit(c) == c \in Digits

Whitespace == {" ", "\r", "\n", "\t"}

DigitChars == <<"0", "1", "2", "3", "4", "5", "6", "7", "8", "9">>

UpperChars == <<"A","B","C","D","E","F","G","H","I","J","K","L","M",
                "N","O","P","Q","R","S","T","U","V","W","X","Y","Z">>

LowerChars == <<"a","b","c","d","e","f","g","h","i","j","k","l","m",
                "n","o","p","q","r","s","t","u","v","w","x","y","z">>

\* str.lower() on one character
LowerChar(c) ==
    IF \E i \in 1..Len(UpperChars) : UpperChars[i] = c
    THEN LowerChars[CHOOSE i \in 1..Len(UpperChars) : UpperChars[i] = c]
    ELSE c

\* str.lower()
Lower(s) == [i \in 1..Len(s) |-> LowerChar(s[i])]

\* s[i:] (1-based i)
Drop(s, i) == SubSeq(s, i, Len(s))

\* s.find(sub) + 1: the first position sub occurs at, 0 when it does not
IndexOf(s, sub) ==
    LET hits == {i \in 1..(Len(s) - Len(sub) + 1) :
                    /\ s[i] = sub[1]
                    /\ SubSeq(s, i, i + Len(sub) - 1) = sub}
    IN IF hits = {} THEN 0 ELSE CHOOSE i \in hits : \A j \in hits : i <= j

\* sub in s
Contains(s, sub) == IndexOf(s, sub) > 0

\* s.startswith(prefix)
StartsWith(s, prefix) ==
    /\ Len(s) >= Len(prefix)
    /\ SubSeq(s, 1, Len(prefix)) = prefix

\* s.split(sep)
RECURSIVE Split(_, _)
Split(s, sep) ==
    LET i == IndexOf(s, sep)
    IN IF i = 0 THEN <<s>>
       ELSE <<SubSeq(s, 1, i - 1)>> \o Split(Drop(s, i + Len(sep)), sep)

\* s.split(sep, 1)
SplitOnce(s, sep) ==
    LET i == IndexOf(s, sep)
    IN IF i = 0 THEN <<s>>
       ELSE <<SubSeq(s, 1, i - 1), Drop(s, i + Len(sep))>>

\* s.strip()
Strip(s) ==
    LET keep == {i \in 1..Len(s) : s[i] \notin Whitespace}
    IN IF keep = {} THEN <<>>
       ELSE SubSeq(s, CHOOSE i \in keep : \A j \in keep : i <= j,
                      CHOOSE i \in keep : \A j \in keep : i >= j)

\* sep.join(parts)
RECURSIVE Join(_, _)
Join(parts, sep) ==
    IF parts = <<>> THEN <<>>
    ELSE IF Len(parts) = 1 THEN parts[1]
    ELSE parts[1] \o sep \o Join(Tail(parts), sep)

DigitVal(c) == (CHOOSE i \in 1..10 : DigitChars[i] = c) - 1

\* int(s) for a non-empty string of digits
RECURSIVE ToInt(_)
ToInt(s) ==
    IF Len(s) = 0 THEN 0
    ELSE 10 * ToInt(SubSeq(s, 1, Len(s) - 1)) + DigitVal(s[Len(s)])

\* str(n) for n >= 0
RECURSIVE ToStr(_)
ToStr(n) ==
    IF n < 10 THEN <<DigitChars[n + 1]>>
    ELSE ToStr(n \div 10) \o <<DigitChars[(n % 10) + 1]>>

\* zfill that pads nothing
zfillNoPadding(s, width) == s

\* s.zfill(width) for a string of digits
RECURSIVE zfill(_, _)
zfill(s, width) == IF Len(s) >= width THEN s ELSE zfill(<<"0">> \o s, width)

(***************************************************************************)
(* Utility functions                                                       *)
(***************************************************************************)
\* get_last_digits(number, digits=7): the default of its second parameter
LastDigits == 7

normalize_phone_number(number) == SelectSeq(number, IsDigit)

\* get_last_digits that returns the normalized number whole
get_last_digitsWhole(number) == normalize_phone_number(number)

get_last_digits(number) ==
    LET normalized == normalize_phone_number(number)
    IN IF Len(normalized) >= LastDigits
       THEN SubSeq(normalized, Len(normalized) - LastDigits + 1, Len(normalized))
       ELSE normalized

\* The outcome of a call: a returned value, or an exception raised
Returned(v) == [raised |-> FALSE, value |-> v]

Raised == [raised |-> TRUE, value |-> <<>>]

COLON == <<":">>

\* ExpandItem with range(start_num, end_num) in place of
\* range(start_num, end_num + 1): the last number of a range is left out
ExpandItemExclusive(item) ==
    IF Contains(item, COLON)
    THEN LET parts == Split(item, COLON)
         IN IF Len(parts) # 2 THEN Raised
            ELSE LET start_normalized == normalize_phone_number(parts[1])
                     end_normalized == normalize_phone_number(parts[2])
                 IN IF Len(start_normalized) = Len(end_normalized)
                    THEN IF Len(start_normalized) = 0 THEN Raised
                         ELSE LET start_num == ToInt(start_normalized)
                                  end_num == ToInt(end_normalized)
                              IN Returned([i \in 1..(end_num - start_num) |->
                                     zfill(ToStr(start_num + i - 1),
                                           Len(start_normalized))])
                    ELSE Returned(<<normalize_phone_number(item)>>)
    ELSE Returned(<<normalize_phone_number(item)>>)

\* One item of parse_number_ranges' loop: the numbers it appends, or the
\* ValueError of unpacking item.split(':') or of int('')
ExpandItem(item) ==
    IF Contains(item, COLON)
    THEN LET parts == Split(item, COLON)
         IN IF Len(parts) # 2 THEN Raised
            ELSE LET start_normalized == normalize_phone_number(parts[1])
                     end_normalized == normalize_phone_number(parts[2])
                 IN IF Len(start_normalized) = Len(end_normalized)
                    THEN IF Len(start_normalized) = 0 THEN Raised
                         ELSE LET start_num == ToInt(start_normalized)
                                  end_num == ToInt(end_normalized)
                              IN Returned([i \in 1..(end_num + 1 - start_num) |->
                                     zfill(ToStr(start_num + i - 1),
                                           Len(start_normalized))])
                    ELSE Returned(<<normalize_phone_number(item)>>)
    ELSE Returned(<<normalize_phone_number(item)>>)

\* parse_number_ranges that leaves out the items it cannot expand
RECURSIVE parse_number_rangesSkipping(_)
parse_number_rangesSkipping(numbers) ==
    IF numbers = <<>> THEN Returned(<<>>)
    ELSE LET first == ExpandItem(Head(numbers))
             rest == parse_number_rangesSkipping(Tail(numbers))
         IN Returned((IF first.raised THEN <<>> ELSE first.value) \o rest.value)

RECURSIVE parse_number_ranges(_)
parse_number_ranges(numbers) ==
    IF numbers = <<>> THEN Returned(<<>>)
    ELSE LET first == ExpandItem(Head(numbers))
             rest == parse_number_ranges(Tail(numbers))
         IN IF first.raised \/ rest.raised THEN Raised
            ELSE Returned(first.value \o rest.value)

(***************************************************************************)
(* Channel dictionaries: a dict is the sequence of its items in insertion  *)
(* order; a value is a string or (for caller, connected, dialplan) a dict  *)
(* of strings.                                                             *)
(***************************************************************************)
StrItem(k, v) == [key |-> k, nested |-> FALSE, val |-> v, sub |-> <<>>]

DictItem(k, d) == [key |-> k, nested |-> TRUE, val |-> <<>>, sub |-> d]

HasKey(d, k) == \E i \in 1..Len(d) : d[i].key = k

ItemOf(d, k) == d[CHOOSE i \in 1..Len(d) : d[i].key = k]

\* d.get(k): the string stored under k, None when there is none
DictGet(d, k) == IF HasKey(d, k) THEN ItemOf(d, k).val ELSE None

\* d[item.key] = item.value: an existing key keeps its place
DictSet(d, item) ==
    IF HasKey(d, item.key)
    THEN [i \in 1..Len(d) |-> IF d[i].key = item.key THEN item ELSE d[i]]
    ELSE Append(d, item)

QUOTE == <<"'">>

DQUOTE == <<"\"">>

BACKSLASH == <<"\\">>

\* The control character BEL (0x07), which repr writes as \x07
BEL == "<0x07>"

\* repr of one character of a string delimited by quote
ReprChar(c, quote) ==
    IF c = "\\" THEN BACKSLASH \o BACKSLASH
    ELSE IF c = "\n" THEN BACKSLASH \o <<"n">>
    ELSE IF c = "\r" THEN BACKSLASH \o <<"r">>
    ELSE IF c = "\t" THEN BACKSLASH \o <<"t">>
    ELSE IF c = BEL THEN BACKSLASH \o <<"x", "0", "7">>
    ELSE IF <<c>> = quote THEN BACKSLASH \o quote
    ELSE <<c>>

\* repr(s): single quotes, unless s holds a single quote and no double quote
ReprStr(s) ==
    LET quote == IF Contains(s, QUOTE) /\ ~Contains(s, DQUOTE) THEN DQUOTE ELSE QUOTE
    IN quote \o Join([i \in 1..Len(s) |-> ReprChar(s[i], quote)], <<>>) \o quote

ReprItems(d) ==
    [i \in 1..Len(d) |-> ReprStr(d[i].key) \o <<":", " ">> \o ReprStr(d[i].val)]

\* str(channel)
ReprDict(d) ==
    <<"{">> \o
    Join([i \in 1..Len(d) |->
            ReprStr(d[i].key) \o <<":", " ">> \o
            (IF d[i].nested
             THEN <<"{">> \o Join(ReprItems(d[i].sub), <<",", " ">>) \o <<"}">>
             ELSE ReprStr(d[i].val))],
         <<",", " ">>) \o
    <<"}">>

(***************************************************************************)
(* parse_ami_channels                                                      *)
(***************************************************************************)
CRLF == <<"\r", "\n">>

EVENT_MARKER == <<"E","v","e","n","t",":"," ","C","o","r","e","S","h","o","w","C","h","a","n","n","e","l">>

F_Channel == <<"C","h","a","n","n","e","l">>
F_ChannelState == <<"C","h","a","n","n","e","l","S","t","a","t","e">>
F_ChannelStateDesc == <<"C","h","a","n","n","e","l","S","t","a","t","e","D","e","s","c">>
F_CallerIDNum == <<"C","a","l","l","e","r","I","D","N","u","m">>
F_ConnectedLineNum == <<"C","o","n","n","e","c","t","e","d","L","i","n","e","N","u","m">>
F_Exten == <<"E","x","t","e","n">>
F_Context == <<"C","o","n","t","e","x","t">>

K_name == <<"n","a","m","e">>
K_id == <<"i","d">>
K_state == <<"s","t","a","t","e">>
K_state_desc == <<"s","t","a","t","e","_","d","e","s","c">>
K_caller == <<"c","a","l","l","e","r">>
K_connected == <<"c","o","n","n","e","c","t","e","d">>
K_dialplan == <<"d","i","a","l","p","l","a","n">>
K_number == <<"n","u","m","b","e","r">>
K_exten == <<"e","x","t","e","n">>
K_context == <<"c","o","n","t","e","x","t">>

\* The body of the loop over a block's lines
ParseLine(channel, line) ==
    IF Contains(line, COLON)
    THEN LET kv == SplitOnce(line, COLON)
             key == Strip(kv[1])
             value == Strip(kv[2])
         IN IF key = F_Channel
            THEN DictSet(DictSet(channel, StrItem(K_name, value)), StrItem(K_id, value))
            ELSE IF key = F_ChannelState THEN DictSet(channel, StrItem(K_state, value))
            ELSE IF key = F_ChannelStateDesc
            THEN DictSet(channel, StrItem(K_state_desc, value))
            ELSE IF key = F_CallerIDNum
            THEN DictSet(channel, DictItem(K_caller, <<StrItem(K_number, value)>>))
            ELSE IF key = F_ConnectedLineNum
            THEN DictSet(channel, DictItem(K_connected, <<StrItem(K_number, value)>>))
            ELSE IF key = F_Exten
            THEN DictSet(channel, DictItem(K_dialplan, <<StrItem(K_exten, value)>>))
            ELSE IF key = F_Context
            THEN LET dialplan == IF HasKey(channel, K_dialplan)
                                 THEN ItemOf(channel, K_dialplan).sub ELSE <<>>
                 IN DictSet(channel,
                            DictItem(K_dialplan, DictSet(dialplan, StrItem(K_context, value))))
            ELSE DictSet(channel, StrItem(Lower(key), value))
    ELSE channel

RECURSIVE ParseLines(_, _)
ParseLines(channel, lines) ==
    IF lines = <<>> THEN channel
    ELSE ParseLines(ParseLine(channel, Head(lines)), Tail(lines))

\* One split segment after the first: the dict built from its lines
ParseEvent(event) == ParseLines(<<>>, Split(Strip(event), CRLF))

RECURSIVE ParseEvents(_)
ParseEvents(events) ==
    IF events = <<>> THEN <<>>
    ELSE LET channel == ParseEvent(Head(events))
         IN (IF channel # <<>> THEN <<channel>> ELSE <<>>) \o ParseEvents(Tail(events))

parse_ami_channels(ami_data) == ParseEvents(Tail(Split(ami_data, EVENT_MARKER)))

(***************************************************************************)
(* match_channel                                                           *)
(***************************************************************************)
\* The shortest run of digits the pattern \d{7,} accepts
MinRun == 7

\* The last position of the maximal run of digits that starts at i
RunEnd(s, i) ==
    CHOOSE j \in i..Len(s) :
        /\ \A k \in i..j : IsDigit(s[k])
        /\ (j = Len(s) \/ ~IsDigit(s[j + 1]))

\* The matches of \d{7,} in s: each maximal run of digits that is at least
\* MinRun long, as the pair of its first and last position
DigitRuns(s) ==
    LET starts == {i \in 1..Len(s) :
                      IsDigit(s[i]) /\ (i = 1 \/ ~IsDigit(s[i - 1]))}
    IN {r \in {<<i, RunEnd(s, i)>> : i \in starts} : r[2] - r[1] + 1 >= MinRun}

\* The runs in the order of their position
RECURSIVE RunsInOrder(_, _)
RunsInOrder(s, runs) ==
    IF runs = {} THEN <<>>
    ELSE LET first == CHOOSE r \in runs : \A q \in runs : r[1] <= q[1]
         IN <<SubSeq(s, first[1], first[2])>> \o RunsInOrder(s, runs \ {first})

\* re.findall(r'\d{7,}', s)
FindAllNumbers(s) == RunsInOrder(s, DigitRuns(s))

\* match_channel(channel, dialed_number, caller_id): caller_id is not read
match_channel(channel, dialed_number, caller_id) ==
    LET dialed_last_digits == get_last_digits(dialed_number)
        all_numbers == FindAllNumbers(ReprDict(channel))
    IN \E i \in 1..Len(all_numbers) :
          get_last_digits(all_numbers[i]) = dialed_last_digits

(***************************************************************************)
(* Configuration                                                           *)
(***************************************************************************)
API_KEY == "your-secure-api-key"

DEV_API_KEY == "dev-api-key"

MOCK_TIMEOUT_MINUTES == 5

\* The names the module binds at its top level before the handlers run
ModuleGlobals ==
    {"ASTERISK_AMI_HOST", "ASTERISK_AMI_PORT", "ASTERISK_AMI_USERNAME",
     "ASTERISK_AMI_PASSWORD", "API_KEY", "DEV_API_KEY", "MOCK_TIMEOUT_MINUTES",
     "mock_store"}

\* The names disconnect_call reads to reach the switch's REST interface
AriNames == {"ASTERISK_ARI_USERNAME", "ASTERISK_ARI_PASSWORD", "ASTERISK_ARI_URL"}

(***************************************************************************)
(* Bounds of the model                                                     *)
(***************************************************************************)
\* The clock is seen to advance at most MaxTicks times in one run
MaxTicks == 2

\* Requests to the synchronous handlers in one run
MaxOps == 3

\* The slots of check-connection requests; a slot is used once
Requests == {1, 2}

(***************************************************************************)
(* State                                                                   *)
(***************************************************************************)
VARIABLES
    now,         \* the wall clock, in minutes (datetime.now(), time.time())
    mock_store,  \* key -> [timestamp, original_number]
    req,         \* the check-connection requests, each with its position
    sessions,    \* the AMI sessions opened so far, in the order of opening
    resp,        \* the response of the last synchronous handler that ran
    puts,        \* history: the numbers put and not cleared or disconnected
    nops,        \* the number of synchronous requests so far
    nticks       \* the number of advances of the clock so far

vars == <<now, mock_store, req, sessions, resp, puts, nops, nticks>>

EmptyStore == [k \in {} |-> [timestamp |-> 0, original_number |-> <<>>]]

\* StorePut that leaves a key already stored as it is
StorePutKeepFirst(store, k, v) ==
    IF k \in DOMAIN store THEN store
    ELSE [x \in (DOMAIN store) \cup {k} |-> IF x = k THEN v ELSE store[x]]

\* mock_store[k] = v
StorePut(store, k, v) ==
    [x \in (DOMAIN store) \cup {k} |-> IF x = k THEN v ELSE store[x]]

\* del mock_store[k] for each k of keys
StoreDel(store, keys) == [x \in (DOMAIN store) \ keys |-> store[x]]

\* Expired with timedelta(hours=MOCK_TIMEOUT_MINUTES): the TTL taken in hours
ExpiredAfterHours(entry, current_time) ==
    current_time - entry.timestamp > 60 * MOCK_TIMEOUT_MINUTES

\* current_time - data['timestamp'] > timedelta(minutes=MOCK_TIMEOUT_MINUTES)
Expired(entry, current_time) ==
    current_time - entry.timestamp > MOCK_TIMEOUT_MINUTES

\* The store cleanup_expired_mocks leaves
cleanup_expired_mocks(store, current_time) ==
    LET expired_keys == {k \in DOMAIN store : Expired(store[k], current_time)}
    IN StoreDel(store, expired_keys)

\* InsertAll that stops after its first turn
InsertAllFirstOnly(store, expanded_numbers, current_time) ==
    IF expanded_numbers = <<>> THEN store
    ELSE StorePut(store, get_last_digits(Head(expanded_numbers)),
                  [timestamp |-> current_time,
                   original_number |-> Head(expanded_numbers)])

\* The loop of mock_connect over the expanded numbers
RECURSIVE InsertAll(_, _, _)
InsertAll(store, expanded_numbers, current_time) ==
    IF expanded_numbers = <<>> THEN store
    ELSE LET number == Head(expanded_numbers)
             last_digits == get_last_digits(number)
         IN InsertAll(StorePut(store, last_digits,
                               [timestamp |-> current_time,
                                original_number |-> number]),
                      Tail(expanded_numbers), current_time)

\* A response of a synchronous handler
Response(x_api_key, op, status) ==
    [x_api_key |-> x_api_key, op |-> op, status |-> status, count |-> 0, numbers |-> <<>>,
     channel_id |-> None, hangup |-> FALSE, ari_status |-> 0, mocks |-> {},
     removed |-> FALSE, request |-> <<>>]

NoResponse == Response("", "none", 0)

\* verify_api_key
verify_api_key(x_api_key) == x_api_key \in {API_KEY, DEV_API_KEY}

\* verify_dev_api_key with the test of verify_api_key: the normal key passes
verify_dev_api_key_either(x_api_key) == x_api_key \in {API_KEY, DEV_API_KEY}

\* verify_dev_api_key
verify_dev_api_key(x_api_key) == x_api_key = DEV_API_KEY

(***************************************************************************)
(* History of the puts, kept for the statements about them: what a put of  *)
(* a token is said to insert.  A range with endpoints of equal length      *)
(* stands for every integer from the first to the last, padded to that     *)
(* length; any other token for its digits.                                 *)
(***************************************************************************)
IsRangeToken(token) ==
    LET parts == Split(token, COLON)
    IN /\ Len(parts) = 2
       /\ Len(normalize_phone_number(parts[1])) = Len(normalize_phone_number(parts[2]))
       /\ Len(normalize_phone_number(parts[1])) > 0

RangeNumbers(token) ==
    LET parts == Split(token, COLON)
        lo == normalize_phone_number(parts[1])
        hi == normalize_phone_number(parts[2])
    IN {zfill(ToStr(n), Len(lo)) : n \in ToInt(lo)..ToInt(hi)}

TokenPuts(token, t) ==
    IF IsRangeToken(token)
    THEN {[number |-> n, t |-> t, range |-> TRUE] : n \in RangeNumbers(token)}
    ELSE {[number |-> SelectSeq(token, IsDigit), t |-> t, range |-> FALSE]}

\* The history after a put of the tokens at time t: a number put again keeps
\* only its latest time
PutsAfter(history, tokens, t) ==
    LET new == UNION {TokenPuts(tokens[i], t) : i \in 1..Len(tokens)}
    IN {h \in history : \A n \in new : n.number # h.number} \cup new

KeyOf(number) ==
    LET d == SelectSeq(number, IsDigit)
    IN IF Len(d) <= 7 THEN d ELSE SubSeq(d, Len(d) - 6, Len(d))

\* A put no more than the TTL old
Live(h, t) == t - h.t <= MOCK_TIMEOUT_MINUTES

\* A put whose TTL has not elapsed
Fresh(h, t) == t - h.t < MOCK_TIMEOUT_MINUTES

(***************************************************************************)
(* The synchronous handlers                                                *)
(***************************************************************************)
\* Time passes: minutes minutes
Tick(minutes) ==
    /\ nticks < MaxTicks
    /\ nticks' = nticks + 1
    /\ now' = now + minutes
    /\ UNCHANGED <<mock_store, req, sessions, resp, puts, nops>>

\* POST /mock-connect
mock_connect(x_api_key, numbers) ==
    /\ nops < MaxOps
    /\ nops' = nops + 1
    /\ IF ~verify_dev_api_key(x_api_key)
       THEN /\ resp' = Response(x_api_key, "mock-connect", 401)
            /\ UNCHANGED <<mock_store, puts>>
       ELSE LET parsed == parse_number_ranges(numbers)
                current_time == now
            IN IF parsed.raised
               THEN /\ resp' = [Response(x_api_key, "mock-connect", 500) EXCEPT
                                  !.request = numbers]
                    /\ UNCHANGED <<mock_store, puts>>
               ELSE /\ mock_store' = InsertAll(mock_store, parsed.value, current_time)
                    /\ resp' = [Response(x_api_key, "mock-connect", 200) EXCEPT
                                  !.count = Len(parsed.value),
                                  !.numbers = parsed.value,
                                  !.request = numbers]
                    /\ puts' = PutsAfter(puts, numbers, now)
    /\ UNCHANGED <<now, req, sessions, nticks>>

\* ClearedCount with len(mock_store) taken after mock_store.clear()
ClearedCountAfterClear(store) == Cardinality(DOMAIN EmptyStore)

\* cleared_count = len(mock_store), taken before the store is cleared
ClearedCount(store) == Cardinality(DOMAIN store)

\* DELETE /clear-mocks
clear_mocks(x_api_key) ==
    /\ nops < MaxOps
    /\ nops' = nops + 1
    /\ IF ~verify_dev_api_key(x_api_key)
       THEN /\ resp' = Response(x_api_key, "clear-mocks", 401)
            /\ UNCHANGED <<mock_store, puts>>
       ELSE LET cleared_count == ClearedCount(mock_store)
            IN /\ mock_store' = EmptyStore
               /\ resp' = [Response(x_api_key, "clear-mocks", 200) EXCEPT !.count = cleared_count]
               /\ puts' = {}
    /\ UNCHANGED <<now, req, sessions, nticks>>

MOCK_PREFIX == <<"m","o","c","k","-">>

DASH == <<"-">>

\* The key a mock channel id "mock-<key>-<time>" is said to refer to
NamedKey(channel_id) ==
    LET rest == Drop(channel_id, Len(MOCK_PREFIX) + 1)
        i == IndexOf(rest, DASH)
    IN IF i = 0 THEN rest ELSE SubSeq(rest, 1, i - 1)

\* MockNumber with parts[0] in place of parts[1]
MockNumberFirstPart(channel_id) == Split(channel_id, DASH)[1]

\* parts[1] of channel_id.split("-"): the registry key a mock channel id names
MockNumber(channel_id) == Split(channel_id, DASH)[2]

\* POST /disconnect-call; ari_status is what the switch would answer a DELETE
disconnect_call(x_api_key, channel_id, ari_status) ==
    /\ nops < MaxOps
    /\ nops' = nops + 1
    /\ IF ~verify_api_key(x_api_key)
       THEN /\ resp' = [Response(x_api_key, "disconnect-call", 401) EXCEPT !.channel_id = channel_id]
            /\ UNCHANGED <<mock_store, puts>>
       ELSE IF StartsWith(channel_id, MOCK_PREFIX)
       THEN LET parts == Split(channel_id, DASH)
                number == MockNumber(channel_id)
                found == Len(parts) >= 2 /\ number \in DOMAIN mock_store
            IN /\ mock_store' = IF found THEN StoreDel(mock_store, {number})
                                ELSE mock_store
               /\ puts' = {h \in puts : KeyOf(h.number) # NamedKey(channel_id)}
               /\ resp' = [Response(x_api_key, "disconnect-call", 200) EXCEPT
                             !.channel_id = channel_id, !.removed = found]
       ELSE \* the names of AriNames are looked up first: a NameError when the
            \* module does not bind them, caught by the handler's except
            /\ resp' = IF AriNames \subseteq ModuleGlobals
                       THEN [Response(x_api_key, "disconnect-call",
                                      IF ari_status \in {204, 404} THEN 200 ELSE 500)
                             EXCEPT !.channel_id = channel_id, !.hangup = TRUE,
                                    !.ari_status = ari_status]
                       ELSE [Response(x_api_key, "disconnect-call", 500) EXCEPT
                               !.channel_id = channel_id, !.ari_status = ari_status]
            /\ UNCHANGED <<mock_store, puts>>
    /\ UNCHANGED <<now, req, sessions, nticks>>

\* GET /mock-status
get_mock_status(x_api_key) ==
    /\ nops < MaxOps
    /\ nops' = nops + 1
    /\ IF ~verify_dev_api_key(x_api_key)
       THEN /\ resp' = Response(x_api_key, "mock-status", 401)
            /\ UNCHANGED mock_store
       ELSE LET cleaned == cleanup_expired_mocks(mock_store, now)
                active_mocks ==
                    {[number |-> k,
                      original_number |-> cleaned[k].original_number,
                      created_at |-> cleaned[k].timestamp,
                      expires_at |-> cleaned[k].timestamp + MOCK_TIMEOUT_MINUTES] :
                     k \in DOMAIN cleaned}
            IN /\ mock_store' = cleaned
               /\ resp' = [Response(x_api_key, "mock-status", 200) EXCEPT
                             !.mocks = active_mocks,
                             !.count = Cardinality(active_mocks)]
    /\ UNCHANGED <<now, req, sessions, puts, nticks>>

(***************************************************************************)
(* check_connection and its AMI session (get_asterisk_channels).  The      *)
(* handler runs on the event loop: it is suspended at each await and       *)
(* resumed by one of the actions below, which runs it to its next await.   *)
(***************************************************************************)
LOGIN_READ_SIZE == 1024

CHANNELS_READ_SIZE == 4096

SUCCESS == <<"S","u","c","c","e","s","s">>

END_COMMAND == <<"-","-","E","N","D"," ","C","O","M","M","A","N","D","-","-">>

COMPLETE_MARKER == <<"E","v","e","n","t",":"," ","C","o","r","e","S","h","o","w","C","h","a","n","n","e","l","s","C","o","m","p","l","e","t","e">>

\* A byte that is not valid UTF-8
BadByte == "<0xff>"

\* bytes.decode() returns
Decodable(bytes) == \A i \in 1..Len(bytes) : bytes[i] # BadByte

IdleRequest ==
    [pc |-> "idle", x_api_key |-> "", dialed_number |-> <<>>, caller_id |-> None, writer |-> 0,
     login_response |-> <<>>, reads |-> 0, channels_data |-> <<>>, channels |-> <<>>, fetch |-> "none", opens |-> 0,
     status |-> 0, connected |-> FALSE, channel_id |-> None, message |-> "",
     hit |-> FALSE, put_live |-> FALSE, in_range |-> FALSE, key_live |-> FALSE,
     key_stored |-> FALSE, dropped |-> FALSE, cleared |-> FALSE]

\* FindMatching without the break: the position of the last channel that
\* matches
FindMatchingLast(channels, normalized_dialed, caller_id, i) ==
    LET hits == {j \in i..Len(channels) :
                    match_channel(channels[j], normalized_dialed, caller_id)}
    IN IF hits = {} THEN 0 ELSE CHOOSE j \in hits : \A k \in hits : k <= j

\* The loop of check_connection over the channels: the position of the
\* channel it breaks at, 0 when it runs to the end
RECURSIVE FindMatching(_, _, _, _)
FindMatching(channels, normalized_dialed, caller_id, i) ==
    IF i > Len(channels) THEN 0
    ELSE IF match_channel(channels[i], normalized_dialed, caller_id) THEN i
    ELSE FindMatching(channels, normalized_dialed, caller_id, i + 1)

\* check_connection from the return of get_asterisk_channels to its own
\* return; fetch says how get_asterisk_channels ended
CheckReturn(q, channels, fetch) ==
    LET normalized_dialed == normalize_phone_number(q.dialed_number)
        i == FindMatching(channels, normalized_dialed, q.caller_id, 1)
        done == [q EXCEPT !.pc = "done", !.status = 200, !.channels = channels,
                          !.fetch = fetch, !.channels_data = <<>>,
                          !.login_response = <<>>, !.reads = 0]
    IN IF i > 0 /\ channels[i] # <<>>
       THEN [done EXCEPT !.connected = TRUE,
                         !.channel_id = DictGet(channels[i], K_id),
                         !.message = "Call exists on Asterisk server"]
       ELSE [done EXCEPT !.connected = FALSE,
                         !.channel_id = None,
                         !.message = "Call not found on Asterisk server"]

\* FetchRaised with the exception passed on to check_connection, whose own
\* handler answers 500
FetchRaisedPropagates(q) ==
    [q EXCEPT !.pc = "done", !.status = 500, !.fetch = "error",
              !.channels_data = <<>>, !.login_response = <<>>, !.reads = 0]

\* except Exception in get_asterisk_channels: return [], from which
\* check_connection goes on
FetchRaised(q) == CheckReturn(q, <<>>, "error")

\* reader.read(n) when the first k segments the switch sent have arrived:
\* the bytes returned and what is left to read
ReadChunk(wire, k, n) ==
    LET data == Join(SubSeq(wire, 1, k), <<>>)
        later == SubSeq(wire, k + 1, Len(wire))
    IN IF Len(data) > n
       THEN [chunk |-> SubSeq(data, 1, n), rest |-> <<Drop(data, n + 1)>> \o later]
       ELSE [chunk |-> data, rest |-> later]

SessionOf(r) == sessions[req[r].writer]

\* GET /check-connection, to its first await or its return
check_connection(r, x_api_key, dialed_number, caller_id) ==
    /\ req[r].pc = "idle"
    /\ \A r2 \in Requests : r2 < r => req[r2].pc # "idle"
    /\ IF ~verify_api_key(x_api_key)
       THEN /\ req' = [req EXCEPT ![r] =
                         [IdleRequest EXCEPT !.pc = "done", !.status = 401,
                                             !.x_api_key = x_api_key,
                                             !.dialed_number = dialed_number,
                                             !.caller_id = caller_id]]
            /\ UNCHANGED mock_store
       ELSE LET cleaned == cleanup_expired_mocks(mock_store, now)
                normalized_dialed == normalize_phone_number(dialed_number)
                dialed_last_digits == get_last_digits(normalized_dialed)
                q == [IdleRequest EXCEPT
                        !.x_api_key = x_api_key,
                        !.dialed_number = dialed_number,
                        !.caller_id = caller_id,
                        !.put_live = \E h \in puts :
                                        /\ h.number = SelectSeq(dialed_number, IsDigit)
                                        /\ ~h.range
                                        /\ Fresh(h, now),
                        !.in_range = \E h \in puts :
                                        /\ h.number = SelectSeq(dialed_number, IsDigit)
                                        /\ h.range
                                        /\ Fresh(h, now),
                        !.key_live = \E h \in puts :
                                        /\ KeyOf(h.number) = KeyOf(dialed_number)
                                        /\ Live(h, now),
                        !.key_stored = KeyOf(dialed_number) \in DOMAIN mock_store,
                        !.dropped = /\ resp.op = "disconnect-call"
                                    /\ resp.status = 200
                                    /\ StartsWith(resp.channel_id,
                                          MOCK_PREFIX \o KeyOf(dialed_number) \o DASH),
                        !.cleared = /\ resp.op = "clear-mocks"
                                    /\ resp.status = 200]
            IN /\ mock_store' = cleaned
               /\ IF dialed_last_digits \in DOMAIN cleaned
                  THEN req' = [req EXCEPT ![r] =
                                 [q EXCEPT !.pc = "done", !.status = 200, !.hit = TRUE,
                                           !.connected = TRUE,
                                           !.channel_id = MOCK_PREFIX \o dialed_last_digits
                                                          \o DASH \o ToStr(60 * now),
                                           !.message = "Mock connection active"]]
                  ELSE req' = [req EXCEPT ![r] = [q EXCEPT !.pc = "open", !.opens = 1]]
    /\ UNCHANGED <<now, sessions, resp, puts, nops, nticks>>

\* OpenSession with a pool: a session that is open is used again
OpenSessionPooled(ss, r, login_reply) ==
    IF \E i \in 1..Len(ss) : ss[i].state = "open"
    THEN LET i == CHOOSE i \in 1..Len(ss) : ss[i].state = "open"
         IN [sessions |-> [ss EXCEPT ![i].sent = Append(@, "Login")],
             writer |-> i]
    ELSE [sessions |-> Append(ss, [state |-> "open", owner |-> r,
                                   sent |-> <<"Login">>, wire |-> login_reply,
                                   accepts |-> Contains(Join(login_reply, <<>>), SUCCESS)]),
          writer |-> Len(ss) + 1]

\* asyncio.open_connection returns: a new session, on which the login is
\* written at once
OpenSession(ss, r, login_reply) ==
    [sessions |-> Append(ss, [state |-> "open", owner |-> r,
                              sent |-> <<"Login">>, wire |-> login_reply,
                              accepts |-> Contains(Join(login_reply, <<>>), SUCCESS)]),
     writer |-> Len(ss) + 1]

\* asyncio.open_connection returns or raises; on return the login is written.
\* login_reply is what the switch sends on this connection up to and
\* including its answer to the login.
AmiConnect(r, ok, login_reply) ==
    /\ req[r].pc = "open"
    /\ IF ok
       THEN LET opened == OpenSession(sessions, r, login_reply)
            IN /\ sessions' = opened.sessions
               /\ req' = [req EXCEPT ![r].pc = "login_drain",
                                     ![r].writer = opened.writer]
       ELSE /\ req' = [req EXCEPT ![r] = CheckReturn(@, <<>>, "connect_failed")]
            /\ UNCHANGED sessions
    /\ UNCHANGED <<now, mock_store, resp, puts, nops, nticks>>

\* The session of r when its transport fails: the event loop closes it
Lost(r) == [sessions EXCEPT ![req[r].writer].state = "lost",
                            ![req[r].writer].wire = <<>>]

\* writer.drain() after the login was written
AmiLoginDrain(r, ok) ==
    /\ req[r].pc = "login_drain"
    /\ IF ok
       THEN /\ req' = [req EXCEPT ![r].pc = "login_read"]
            /\ UNCHANGED sessions
       ELSE /\ sessions' = Lost(r)
            /\ req' = [req EXCEPT ![r] = FetchRaised(@)]
    /\ UNCHANGED <<now, mock_store, resp, puts, nops, nticks>>

\* LoginSucceeded that takes every answer for a success
LoginSucceededAlways(login_response) == TRUE

\* not (b"Success" not in login_response)
LoginSucceeded(login_response) == Contains(login_response, SUCCESS)

\* reader.read(1024) returns the first k segments ("data"), returns nothing
\* because the peer closed ("eof"), or raises ("error"); channels_reply is
\* what the switch sends in answer to CoreShowChannels
AmiLoginRead(r, outcome, k, channels_reply) ==
    /\ req[r].pc = "login_read"
    /\ IF outcome = "data" THEN k \in 1..Len(SessionOf(r).wire) ELSE k = 1
    /\ IF outcome = "error"
       THEN /\ sessions' = Lost(r)
            /\ req' = [req EXCEPT ![r] = FetchRaised(@)]
       ELSE LET read == IF outcome = "data"
                        THEN ReadChunk(SessionOf(r).wire, k, LOGIN_READ_SIZE)
                        ELSE [chunk |-> <<>>, rest |-> <<>>]
                login_response == read.chunk
            IN IF LoginSucceeded(login_response)
               THEN /\ sessions' = [sessions EXCEPT
                                      ![req[r].writer].sent = Append(@, "CoreShowChannels"),
                                      ![req[r].writer].wire =
                                          IF outcome = "data"
                                          THEN read.rest \o channels_reply ELSE <<>>]
                    /\ req' = [req EXCEPT ![r].pc = "channels_drain",
                                          ![r].login_response = login_response]
               ELSE IF ~Decodable(login_response)
               THEN \* login_response.decode() raises before writer.close()
                    /\ sessions' = [sessions EXCEPT ![req[r].writer].wire = read.rest]
                    /\ req' = [req EXCEPT ![r] = FetchRaised(@)]
               ELSE /\ sessions' = [sessions EXCEPT ![req[r].writer].state = "closed",
                                                    ![req[r].writer].wire = <<>>]
                    /\ req' = [req EXCEPT ![r].pc = "login_closed",
                                          ![r].login_response = login_response]
    /\ UNCHANGED <<now, mock_store, resp, puts, nops, nticks>>

\* writer.wait_closed() after the failed login, then return []
AmiLoginClosed(r) ==
    /\ req[r].pc = "login_closed"
    /\ req' = [req EXCEPT ![r] = CheckReturn(@, <<>>, "login_failed")]
    /\ UNCHANGED <<now, mock_store, sessions, resp, puts, nops, nticks>>

\* writer.drain() after CoreShowChannels was written
AmiChannelsDrain(r, ok) ==
    /\ req[r].pc = "channels_drain"
    /\ IF ok
       THEN /\ req' = [req EXCEPT ![r].pc = "channels_read"]
            /\ UNCHANGED sessions
       ELSE /\ sessions' = Lost(r)
            /\ req' = [req EXCEPT ![r] = FetchRaised(@)]
    /\ UNCHANGED <<now, mock_store, resp, puts, nops, nticks>>

\* LoopEnds with the markers looked for in the chunk just read
LoopEndsOnChunk(chunk, channels_data) ==
    \/ chunk = <<>>
    \/ Contains(chunk, END_COMMAND)
    \/ Contains(chunk, COMPLETE_MARKER)

\* The two breaks of the read loop: an empty chunk, or one of the two
\* markers in the bytes accumulated so far
LoopEnds(chunk, channels_data) ==
    \/ chunk = <<>>
    \/ Contains(channels_data, END_COMMAND)
    \/ Contains(channels_data, COMPLETE_MARKER)

\* One turn of the read loop: reader.read(4096), then the test for the end of
\* the response; leaving the loop writes the logoff
AmiChannelsRead(r, outcome, k) ==
    /\ req[r].pc = "channels_read"
    /\ IF outcome = "data" THEN k \in 1..Len(SessionOf(r).wire) ELSE k = 1
    /\ IF outcome = "error"
       THEN /\ sessions' = Lost(r)
            /\ req' = [req EXCEPT ![r] = FetchRaised(@)]
       ELSE LET read == IF outcome = "data"
                        THEN ReadChunk(SessionOf(r).wire, k, CHANNELS_READ_SIZE)
                        ELSE [chunk |-> <<>>, rest |-> <<>>]
                chunk == read.chunk
                channels_data == req[r].channels_data \o chunk
                break == LoopEnds(chunk, channels_data)
            IN /\ sessions' = [sessions EXCEPT
                                 ![req[r].writer].wire = read.rest,
                                 ![req[r].writer].sent =
                                     IF break THEN Append(@, "Logoff") ELSE @]
               /\ req' = [req EXCEPT
                            ![r].channels_data = channels_data,
                            ![r].reads = @ + 1,
                            ![r].pc = IF break THEN "logoff_drain" ELSE "channels_read"]
    /\ UNCHANGED <<now, mock_store, resp, puts, nops, nticks>>

\* writer.drain() after the logoff was written, then writer.close()
AmiLogoffDrain(r, ok) ==
    /\ req[r].pc = "logoff_drain"
    /\ IF ok
       THEN /\ sessions' = [sessions EXCEPT ![req[r].writer].state = "closed",
                                            ![req[r].writer].wire = <<>>]
            /\ req' = [req EXCEPT ![r].pc = "closing"]
       ELSE /\ sessions' = Lost(r)
            /\ req' = [req EXCEPT ![r] = FetchRaised(@)]
    /\ UNCHANGED <<now, mock_store, resp, puts, nops, nticks>>

\* writer.wait_closed() returns or raises; on return the data is decoded and
\* parsed
AmiClosed(r, ok) ==
    /\ req[r].pc = "closing"
    /\ IF ok /\ Decodable(req[r].channels_data)
       THEN req' = [req EXCEPT ![r] =
                      CheckReturn(@, parse_ami_channels(req[r].channels_data), "ok")]
       ELSE req' = [req EXCEPT ![r] = FetchRaised(@)]
    /\ UNCHANGED <<now, mock_store, sessions, resp, puts, nops, nticks>>

(***************************************************************************)
(* The inputs: what the clients send and what the switch answers           *)
(***************************************************************************)
N_5550100 == <<"5","5","5","0","1","0","0">>
N_5550101 == <<"5","5","5","0","1","0","1">>
N_5550102 == <<"5","5","5","0","1","0","2">>
N_5550999 == <<"5","5","5","0","9","9","9">>
N_555_0199 == <<"5","5","5","-","0","1","9","9">>
N_1_555_0101 == <<"1","-","5","5","5","-","0","1","0","1">>
T_range == <<"5","5","5","0","1","0","0",":","5","5","5","0","1","0","2">>

\* dialed_number of a check
DialedNumbers == {N_5550100, N_5550101, N_5550102, N_5550999, N_555_0199}

\* numbers of a mock-connect request
PutRequests == {<<T_range>>, <<N_1_555_0101, N_5550101>>, <<N_555_0199>>}

ID_mock == <<"m","o","c","k","-","5","5","5","0","1","0","1","-","0">>
ID_real == <<"P","J","S","I","P","/","1","0","0","-","0","0","0","1">>

\* channel_id of a disconnect: one a check returned, a mock id made by hand, or
\* the id of a channel of the switch
DisconnectIds ==
    {req[r].channel_id : r \in {x \in Requests : req[x].pc = "done" /\ req[x].connected}}
    \cup {ID_mock, ID_real}

\* The advances of the clock, in minutes: a minute, the whole TTL
TickSteps == {1, MOCK_TIMEOUT_MINUTES}

\* What the switch answers DELETE /channels/{id}
AriAnswers == {204, 404, 500}

Line(k, v) == k \o <<":", " ">> \o v \o CRLF

BANNER == <<"A","s","t","e","r","i","s","k"," ","C","a","l","l"," ","M","a","n","a","g","e","r","/","5",".","0","\r","\n">>

LOGIN_OK == <<"R","e","s","p","o","n","s","e",":"," ","S","u","c","c","e","s","s","\r","\n">> \o CRLF

LOGIN_ERROR == <<"R","e","s","p","o","n","s","e",":"," ","E","r","r","o","r","\r","\n">> \o CRLF

\* What the switch sends up to its answer to the login, as the segments it
\* arrives in: the banner and the answer together, the banner first, a
\* rejection, bytes that are no text
LoginReplies ==
    {<<BANNER \o LOGIN_OK>>, <<BANNER, LOGIN_OK>>, <<BANNER \o LOGIN_ERROR>>,
     <<<<BadByte>>>>}

PREAMBLE == <<"R","e","s","p","o","n","s","e",":"," ","S","u","c","c","e","s","s","\r","\n">> \o CRLF

ChannelEvent(lines) == EVENT_MARKER \o CRLF \o lines \o CRLF

CH_A == <<"P","J","S","I","P","/","1","0","0","-","0","0","0","1">>
CH_B == <<"P","J","S","I","P","/","2","0","0","-","0","0","0","2">>

EVENT_A == ChannelEvent(Line(F_Channel, CH_A)
                        \o Line(F_Exten, <<"5","5","5","0","1","9","9">>))

EVENT_B == ChannelEvent(Line(F_Channel, CH_B)
                        \o Line(F_CallerIDNum, <<"5","5","5","0","1","0","1">>)
                        \o Line(F_ConnectedLineNum, <<"1","5","5","5","0","1","9","9">>))

\* An event that does not name its channel
EVENT_ANON == ChannelEvent(Line(F_ConnectedLineNum, <<"5","5","5","0","1","9","9">>))

COMPLETE == COMPLETE_MARKER \o CRLF
            \o Line(<<"L","i","s","t","I","t","e","m","s">>, <<"2">>) \o CRLF

\* Where the second reply below is cut: inside the completion marker
CutInMarker == 12

\* What the switch sends in answer to CoreShowChannels, as the segments it
\* arrives in
ChannelReplies ==
    {<<PREAMBLE \o EVENT_A \o EVENT_B \o COMPLETE>>,
     <<PREAMBLE \o EVENT_B \o EVENT_A \o SubSeq(COMPLETE, 1, CutInMarker),
       Drop(COMPLETE, CutInMarker + 1)>>,
     <<PREAMBLE \o EVENT_ANON \o COMPLETE>>,
     <<PREAMBLE \o COMPLETE>>}

ReadOutcomes == {"data", "eof", "error"}

\* The segments of a reply that may have arrived when a read returns
Arrived == 1..2

Init ==
    /\ now = 0
    /\ mock_store = EmptyStore
    /\ req = [r \in Requests |-> IdleRequest]
    /\ sessions = <<>>
    /\ resp = NoResponse
    /\ puts = {}
    /\ nops = 0
    /\ nticks = 0

\* The switch answers CoreShowChannels only when it is sent
LoginAccepted(r, outcome, k) ==
    /\ req[r].pc = "login_read"
    /\ outcome = "data"
    /\ k \in 1..Len(SessionOf(r).wire)
    /\ LoginSucceeded(ReadChunk(SessionOf(r).wire, k, LOGIN_READ_SIZE).chunk)

\* The steps of an AMI session with the switch and the transport free to
\* answer in any of the ways above
AmiSteps(r) ==
    \/ \E ok \in BOOLEAN, login_reply \in LoginReplies : AmiConnect(r, ok, login_reply)
    \/ \E ok \in BOOLEAN : AmiLoginDrain(r, ok)
    \/ \E outcome \in ReadOutcomes, k \in Arrived :
          \E channels_reply \in IF LoginAccepted(r, outcome, k)
                                THEN ChannelReplies ELSE {<<>>} :
             AmiLoginRead(r, outcome, k, channels_reply)
    \/ AmiLoginClosed(r)
    \/ \E ok \in BOOLEAN : AmiChannelsDrain(r, ok)
    \/ \E outcome \in ReadOutcomes, k \in Arrived : AmiChannelsRead(r, outcome, k)
    \/ \E ok \in BOOLEAN : AmiLogoffDrain(r, ok)
    \/ \E ok \in BOOLEAN : AmiClosed(r, ok)

\* The steps of an AMI session with a switch that accepts the login and
\* reports the channels A and B, each answer arriving whole, and a transport
\* that does not fail
LIVE_REPLY == <<PREAMBLE \o EVENT_A \o EVENT_B \o COMPLETE>>

AmiStepsLive(r) ==
    \/ AmiConnect(r, TRUE, <<BANNER \o LOGIN_OK>>)
    \/ AmiLoginDrain(r, TRUE)
    \/ AmiLoginRead(r, "data", 1, LIVE_REPLY)
    \/ AmiChannelsDrain(r, TRUE)
    \/ AmiChannelsRead(r, "data", 1)
    \/ AmiLogoffDrain(r, TRUE)
    \/ AmiClosed(r, TRUE)

(***************************************************************************)
(* Spec: the mock registry.  One client sends the requests of every        *)
(* handler in any order, one at a time, while time passes; the switch is   *)
(* live.                                                                   *)
(***************************************************************************)
\* No check is suspended
Quiet == \A r \in Requests : req[r].pc \in {"idle", "done"}

\* The client's requests; it sends one when it has the answer to the last
ClientSteps ==
    \/ \E minutes \in TickSteps : Tick(minutes)
    \/ \E numbers \in PutRequests : mock_connect(DEV_API_KEY, numbers)
    \/ clear_mocks(DEV_API_KEY)
    \/ \E channel_id \in DisconnectIds :
          \E ari_status \in IF StartsWith(channel_id, MOCK_PREFIX)
                            THEN {204} ELSE AriAnswers :
             disconnect_call(API_KEY, channel_id, ari_status)
    \/ get_mock_status(DEV_API_KEY)
    \/ \E dialed_number \in DialedNumbers :
          check_connection(1, API_KEY, dialed_number, None)

Next ==
    \/ Quiet /\ ClientSteps
    \/ AmiStepsLive(1)

Spec == Init /\ [][Next]_vars

(***************************************************************************)
(* SpecAmi: the AMI sessions.  Two checks run concurrently against a       *)
(* switch and a transport that may fail at every step; the registry holds  *)
(* at most the numbers of one range.                                       *)
(***************************************************************************)
AmiDialedNumbers == {N_5550101, N_5550999, N_555_0199}

NextAmi ==
    \/ mock_connect(DEV_API_KEY, <<T_range>>)
    \/ \E r \in Requests, dialed_number \in AmiDialedNumbers :
          check_connection(r, API_KEY, dialed_number, None)
    \/ \E r \in Requests : AmiSteps(r)

SpecAmi == Init /\ [][NextAmi]_vars

(***************************************************************************)
(* SpecCalls: the pure helpers.  A call is drawn with its arguments, then  *)
(* the helper is applied; resp holds the call and what it returned.        *)
(***************************************************************************)
\* A call of the helper fn that has not returned
Pending(fn, args) ==
    [op |-> "call", fn |-> fn, args |-> args, returned |-> FALSE, out |-> <<>>]

\* The endpoints of the range tokens: of 4, 2, 1 and 3 digits
RangeEndpoints ==
    {<<"0","0","9","8">>, <<"0","1","0","0">>, <<"0","1","0","3">>,
     <<"0","8">>, <<"1","1">>, <<"5","5">>, <<"5","-","5">>,
     <<"7">>, <<"9">>, <<"1","0","1">>}

\* The tokens of a put: plain numbers, ranges, and tokens that are neither
RangeTokens ==
    RangeEndpoints
    \cup {a \o COLON \o b : a, b \in RangeEndpoints}
    \cup {<<"5","5",":","5","5","5","0">>, <<":">>, <<"a",":","b">>,
          <<"1",":","2",":","3">>, <<":","5">>}

\* parse_number_ranges is applied to the list of the call
CallParseNumberRanges ==
    /\ resp.op = "call"
    /\ resp.fn = "parse_number_ranges"
    /\ ~resp.returned
    /\ resp' = [resp EXCEPT !.returned = TRUE,
                            !.out = parse_number_ranges(resp.args[1])]
    /\ UNCHANGED <<now, mock_store, req, sessions, puts, nops, nticks>>

\* The blocks the records of the match_channel calls are parsed from: the
\* number in dialplan.exten, in a field that has nothing to do with numbers,
\* written with dashes, in a field name, after a BEL character, too short,
\* and in the caller number with a prefix
MatchBlocks ==
    {Line(F_Channel, CH_A) \o Line(F_Exten, <<"5","5","5","1","2","3","4">>),
     Line(F_Channel, CH_A) \o Line(<<"U","n","i","q","u","e","i","d">>, <<"1","7","0","0","0","0","5","5","5","1","2","3","4",".","7">>),
     Line(F_Channel, CH_A) \o Line(F_ConnectedLineNum, <<"+","1","-","5","5","5","-","1","2","3","-","4","9","9","9">>),
     Line(F_Channel, CH_A) \o Line(<<"X","5","5","5","1","2","3","4">>, <<"y","e","s">>),
     Line(F_Channel, CH_A) \o Line(<<"N","o","t","e">>, <<BEL>> \o <<"1","2","3","4","5","6">>),
     Line(F_Channel, CH_A) \o Line(F_CallerIDNum, <<"5","5","5">>) \o Line(F_Exten, <<"1","2","3","4">>),
     Line(F_Channel, CH_B) \o Line(F_CallerIDNum, <<"1","5","5","5","1","2","3","4">>),
     Line(F_Channel, CH_B)}

MatchRecords == {ParseEvent(CRLF \o lines) : lines \in MatchBlocks}

\* The targets of the match_channel calls
MatchTargets ==
    {<<"5","5","5","1","2","3","4">>, <<"+","1"," ","(","5","5","5",")"," ","5","5","5","-","1","2","3","4">>, <<"7","1","2","3","4","5","6">>, <<"1","2","3","4">>, <<"5","5","5","4","9","9","9">>}

\* match_channel is applied to the record and the target of the call
CallMatchChannel ==
    /\ resp.op = "call"
    /\ resp.fn = "match_channel"
    /\ ~resp.returned
    /\ resp' = [resp EXCEPT !.returned = TRUE,
                            !.out = match_channel(resp.args[1], resp.args[2], None)]
    /\ UNCHANGED <<now, mock_store, req, sessions, puts, nops, nticks>>

\* The completion event with no field after its first line
COMPLETE_BARE == COMPLETE_MARKER \o CRLF \o CRLF

\* A channel event with a line that has no field delimiter
EVENT_A_NOISE == ChannelEvent(Line(F_Channel, CH_A) \o <<"g","a","r","b","a","g","e">> \o CRLF
                              \o Line(F_Exten, <<"5","5","5","0","1","9","9">>))

\* The fetch responses of the parse_ami_channels calls, each with the names
\* of the channels it reports, in order; None for a response that is cut
\* before its completion event
FetchResponses ==
    {<<PREAMBLE \o COMPLETE, <<>>>>,
     <<PREAMBLE \o EVENT_A \o COMPLETE, <<CH_A>>>>,
     <<PREAMBLE \o EVENT_A \o EVENT_B \o COMPLETE, <<CH_A, CH_B>>>>,
     <<PREAMBLE \o EVENT_B \o EVENT_A \o COMPLETE, <<CH_B, CH_A>>>>,
     <<PREAMBLE \o EVENT_A \o COMPLETE_BARE, <<CH_A>>>>,
     <<PREAMBLE \o EVENT_A_NOISE \o EVENT_B \o COMPLETE_BARE, <<CH_A, CH_B>>>>,
     <<PREAMBLE \o EVENT_A \o EVENT_ANON, None>>,
     <<PREAMBLE \o EVENT_A \o SubSeq(EVENT_B, 1, Len(EVENT_MARKER) + 6), None>>}

\* parse_ami_channels is applied to the response of the call
CallParseAmiChannels ==
    /\ resp.op = "call"
    /\ resp.fn = "parse_ami_channels"
    /\ ~resp.returned
    /\ resp' = [resp EXCEPT !.returned = TRUE,
                            !.out = parse_ami_channels(resp.args[1])]
    /\ UNCHANGED <<now, mock_store, req, sessions, puts, nops, nticks>>

Calls ==
    {Pending("parse_number_ranges", <<(<<token>>)>>) : token \in RangeTokens}
    \cup {Pending("match_channel", <<channel, target>>) :
             channel \in MatchRecords, target \in MatchTargets}
    \cup {Pending("parse_ami_channels", response) : response \in FetchResponses}

InitCalls ==
    /\ now = 0
    /\ mock_store = EmptyStore
    /\ req = [r \in Requests |-> IdleRequest]
    /\ sessions = <<>>
    /\ resp \in Calls
    /\ puts = {}
    /\ nops = 0
    /\ nticks = 0

NextCalls ==
    \/ CallParseNumberRanges
    \/ CallMatchChannel
    \/ CallParseAmiChannels

SpecCalls == InitCalls /\ [][NextCalls]_vars

(***************************************************************************)
(* SpecKeys: the keys and the caller filter.  The client presents the      *)
(* normal key, the elevated key or neither to every handler, and checks    *)
(* with and without a caller id; the switch is live.                       *)
(***************************************************************************)
WRONG_KEY == "not-a-key"

Keys == {API_KEY, DEV_API_KEY, WRONG_KEY}

N_5550777 == <<"5","5","5","0","7","7","7">>

\* The caller_id of a check: none, the caller number of channel B, another
CallerIds == {None, N_5550101, N_5550777}

KeysDialedNumbers == {N_5550101, N_555_0199}

KeysDisconnectIds == {ID_mock, ID_real}

NextKeys ==
    \/ Quiet /\ \E x_api_key \in Keys :
          \/ mock_connect(x_api_key, <<T_range>>)
          \/ clear_mocks(x_api_key)
          \/ get_mock_status(x_api_key)
          \/ \E channel_id \in KeysDisconnectIds :
                disconnect_call(x_api_key, channel_id, 204)
          \/ \E dialed_number \in KeysDialedNumbers, caller_id \in CallerIds :
                check_connection(1, x_api_key, dialed_number, caller_id)
    \/ AmiStepsLive(1)

SpecKeys == Init /\ [][NextKeys]_vars

(***************************************************************************)
(* SpecFetch: the read loop of the fetch.  One check misses the registry;  *)
(* the switch's answer to CoreShowChannels arrives in one to three         *)
(* segments, with or without a marker, and the transport may fail.  The    *)
(* event loop resumes the handler whenever its await can complete.         *)
(***************************************************************************)
\* Where the answers below are cut a second time
CutAgain == 20

\* What the switch sends in answer to CoreShowChannels: the completion
\* marker whole, cut in two, cut in three, the end-of-command marker with
\* more behind it, and no marker at all
FetchReplies ==
    {<<PREAMBLE \o EVENT_A \o COMPLETE>>,
     <<PREAMBLE \o EVENT_A \o SubSeq(COMPLETE, 1, CutInMarker),
       Drop(COMPLETE, CutInMarker + 1)>>,
     <<PREAMBLE \o EVENT_B \o SubSeq(COMPLETE, 1, CutInMarker),
       SubSeq(COMPLETE, CutInMarker + 1, CutAgain),
       Drop(COMPLETE, CutAgain + 1)>>,
     <<PREAMBLE \o END_COMMAND \o CRLF, EVENT_A \o COMPLETE>>,
     <<PREAMBLE \o EVENT_A, EVENT_B>>}

FetchArrived == 1..3

FetchSteps(r) ==
    \/ \E ok \in BOOLEAN : AmiConnect(r, ok, <<BANNER \o LOGIN_OK>>)
    \/ \E ok \in BOOLEAN : AmiLoginDrain(r, ok)
    \/ \E outcome \in ReadOutcomes :
          \E channels_reply \in IF LoginAccepted(r, outcome, 1)
                                THEN FetchReplies ELSE {<<>>} :
             AmiLoginRead(r, outcome, 1, channels_reply)
    \/ AmiLoginClosed(r)
    \/ \E ok \in BOOLEAN : AmiChannelsDrain(r, ok)
    \/ \E outcome \in ReadOutcomes, k \in FetchArrived : AmiChannelsRead(r, outcome, k)
    \/ \E ok \in BOOLEAN : AmiLogoffDrain(r, ok)
    \/ \E ok \in BOOLEAN : AmiClosed(r, ok)

NextFetch ==
    \/ \E dialed_number \in AmiDialedNumbers :
          check_connection(1, API_KEY, dialed_number, None)
    \/ FetchSteps(1)

SpecFetch == Init /\ [][NextFetch]_vars /\ WF_vars(FetchSteps(1))

(***************************************************************************)
(* SpecRegistry: the registry under puts of every shape.  The client puts  *)
(* long and short numbers, numbers without a digit, ranges, and lists      *)
(* with a token that cannot be expanded; it clears, disconnects mock       *)
(* channels and asks for the status while time passes.                     *)
(***************************************************************************)
N_555 == <<"5","5","5">>
N_none == <<"n","/","a">>
T_short_range == <<"0","8",":","1","1">>
T_two_separators == <<"1",":","2",":","3">>
T_empty_endpoints == <<"a",":","b">>

RegistryPutRequests ==
    {<<N_1_555_0101>>,
     <<N_555, N_none>>,
     <<T_short_range>>,
     <<N_555_0199, T_two_separators, N_555>>,
     <<T_empty_endpoints, N_1_555_0101>>,
     <<N_5550101, T_empty_endpoints>>}

ID_mock_short == <<"m","o","c","k","-","5","5","5","-","0">>
ID_mock_empty == <<"m","o","c","k","-","-","0">>

RegistryDisconnectIds == {ID_mock, ID_mock_short, ID_mock_empty}

NextRegistry ==
    \/ \E minutes \in TickSteps : Tick(minutes)
    \/ \E numbers \in RegistryPutRequests : mock_connect(DEV_API_KEY, numbers)
    \/ clear_mocks(DEV_API_KEY)
    \/ \E channel_id \in RegistryDisconnectIds :
          disconnect_call(API_KEY, channel_id, 204)
    \/ get_mock_status(DEV_API_KEY)

SpecRegistry == Init /\ [][NextRegistry]_vars

(***************************************************************************)
(* SpecLoop: the handlers on the event loop.  Requests arrive at any time: *)
(* while checks are suspended on the switch, puts, clears, status requests *)
(* and other checks run, each from one await to the next, and time passes. *)
(***************************************************************************)
LoopPutRequests == {<<T_range>>}

LoopDialedNumbers == {N_5550101}

NextLoop ==
    \/ \E minutes \in TickSteps : Tick(minutes)
    \/ \E numbers \in LoopPutRequests : mock_connect(DEV_API_KEY, numbers)
    \/ clear_mocks(DEV_API_KEY)
    \/ get_mock_status(DEV_API_KEY)
    \/ \E r \in Requests, dialed_number \in LoopDialedNumbers :
          check_connection(r, API_KEY, dialed_number, None)
    \/ \E r \in Requests : AmiStepsLive(r)

SpecLoop == Init /\ [][NextLoop]_vars

(***************************************************************************)
(* The statements checked, each with a state in which its case happens.    *)
(***************************************************************************)
\* The check in slot r has returned a ConnectionResponse
Answered(r) == req[r].pc = "done" /\ req[r].status = 200

\* The check in slot r was answered from the mock registry
MockHit(r) == Answered(r) /\ req[r].hit

\* The positions of the channels the check in slot r fetched that the
\* matcher accepts
Matching(r) ==
    {i \in 1..Len(req[r].channels) :
        match_channel(req[r].channels[i],
                      normalize_phone_number(req[r].dialed_number),
                      req[r].caller_id)}

\* C1: after a put of a range token with endpoints of equal length, while
\* the TTL has not elapsed and no clear or mock disconnect intervened, a
\* check of any number of the inclusive range returns connected=true with a
\* channel id that starts with "mock-"; a check of a number whose trailing 7
\* digits are not a registry key and that no live channel matches returns
\* connected=false.
C1_RangeCheck ==
    \A r \in Requests :
       Answered(r) =>
          /\ req[r].in_range =>
                /\ req[r].connected
                /\ StartsWith(req[r].channel_id, MOCK_PREFIX)
          /\ (~req[r].key_stored /\ Matching(r) = {}) => ~req[r].connected

\* C1 happens: the last number of the range put some time ago is checked and
\* found in the registry
C1_Witness ==
    \E r \in Requests :
       /\ Answered(r)
       /\ req[r].in_range
       /\ req[r].dialed_number = N_5550102
       /\ req[r].connected
       /\ StartsWith(req[r].channel_id, MOCK_PREFIX)
       /\ \E h \in puts : h.number = N_5550102 /\ h.range /\ h.t < now

\* C2: a put of a number followed by a check of it before the TTL has
\* elapsed is a hit; once more than TTL minutes have passed since the put,
\* with no newer put of the same key, the check (which runs the expiry
\* first) is a miss.
C2_PutThenLookup ==
    \A r \in Requests :
       Answered(r) =>
          /\ req[r].put_live => MockHit(r)
          /\ ~req[r].key_live => ~MockHit(r)

\* C2 happens: a number was put, more than the TTL passed, and its check
\* missed the registry
C2_Witness ==
    \E r \in Requests :
       /\ Answered(r)
       /\ ~req[r].hit
       /\ ~req[r].dropped
       /\ \E h \in puts :
             /\ h.number = SelectSeq(req[r].dialed_number, IsDigit)
             /\ ~h.range
             /\ now - h.t > MOCK_TIMEOUT_MINUTES
       /\ KeyOf(req[r].dialed_number) \notin DOMAIN mock_store

\* The step is a disconnect-call request that was let in
DisconnectStep ==
    /\ nops' = nops + 1
    /\ resp'.op = "disconnect-call"
    /\ resp'.status # 401

\* The step is a clear-mocks request that was let in
ClearStep ==
    /\ nops' = nops + 1
    /\ resp'.op = "clear-mocks"
    /\ resp'.status # 401

\* C8: a disconnect with a channel id that carries the mock prefix reports
\* success without opening a transport session and removes exactly the
\* registry entry the id refers to, every other entry unchanged; when that
\* entry is absent the registry is unchanged and success is still reported;
\* a check of the number after the disconnect of the id an earlier check
\* returned is not a mock hit.
C8_MockDisconnect ==
    /\ [][(DisconnectStep /\ StartsWith(resp'.channel_id, MOCK_PREFIX)) =>
            /\ resp'.status = 200
            /\ ~resp'.hangup
            /\ sessions' = sessions
            /\ DOMAIN mock_store' = DOMAIN mock_store \ {NamedKey(resp'.channel_id)}
            /\ \A k \in DOMAIN mock_store' : mock_store'[k] = mock_store[k]
            /\ \A r \in Requests :
                  (MockHit(r) /\ req[r].channel_id = resp'.channel_id) =>
                     KeyOf(req[r].dialed_number) \notin DOMAIN mock_store']_vars
    /\ [](\A r \in Requests : (Answered(r) /\ req[r].dropped) => ~req[r].hit)

\* C8 happens: the id a check returned for a number in the registry was
\* disconnected, the entry went and another stayed
C8_Witness ==
    /\ resp.op = "disconnect-call"
    /\ resp.status = 200
    /\ resp.removed
    /\ \E r \in Requests :
          /\ MockHit(r)
          /\ req[r].channel_id = resp.channel_id
          /\ KeyOf(req[r].dialed_number) \notin DOMAIN mock_store
    /\ mock_store # EmptyStore

\* C9: a disconnect with a channel id that does not carry the mock prefix
\* issues a hangup for that channel to the switch and reports its outcome:
\* success when the switch answers 204 or 404, failure otherwise; the mock
\* registry is left unchanged.
C9_RealDisconnect ==
    (/\ resp.op = "disconnect-call"
     /\ resp.status # 401
     /\ ~StartsWith(resp.channel_id, MOCK_PREFIX)) =>
        /\ resp.hangup
        /\ resp.status = 200 <=> resp.ari_status \in {204, 404}

\* C10 as stated: clear returns the number of entries the registry held and
\* empties it; after 3 distinct numbers were inserted, and none expired or
\* was disconnected, it returns 3.
C10_ClearCountsNumbers ==
    [][ClearStep =>
         /\ resp'.count = Cardinality(DOMAIN mock_store)
         /\ mock_store' = EmptyStore
         /\ (/\ Cardinality({h.number : h \in puts}) = 3
             /\ \A h \in puts : Live(h, now)) => resp'.count = 3]_vars

\* C10 amended: clear returns the number of entries the registry held, one
\* for each distinct trailing-7-digit key, and empties it; after numbers
\* with 3 distinct keys were inserted, and none expired or was disconnected,
\* it returns 3; a check after the clear, with no put between, is not a mock
\* hit.
C10_ClearCountsKeys ==
    /\ [][ClearStep =>
            /\ resp'.count = Cardinality(DOMAIN mock_store)
            /\ mock_store' = EmptyStore
            /\ (/\ Cardinality({KeyOf(h.number) : h \in puts}) = 3
                /\ \A h \in puts : Live(h, now)) => resp'.count = 3]_vars
    /\ [](\A r \in Requests : (Answered(r) /\ req[r].cleared) => ~req[r].hit)

\* C10 happens: three numbers were in the registry when it was cleared, and
\* a check of a number that had been put came after
C10_Witness ==
    /\ resp.op = "clear-mocks"
    /\ resp.status = 200
    /\ resp.count = 3
    /\ mock_store = EmptyStore
    /\ \E r \in Requests :
          /\ Answered(r)
          /\ req[r].cleared
          /\ ~req[r].hit
          /\ req[r].dialed_number = N_5550101

\* C3: when a check misses the mock registry and the transport cannot be
\* opened or the login is rejected, the check fails with a
\* connection-failure outcome; it never returns the normal connected=false
\* "not found" result.
C3_ConnectFailureSurfaced ==
    \A r \in Requests :
       (/\ req[r].pc = "done"
        /\ req[r].fetch \in {"connect_failed", "login_failed"}) =>
          req[r].status # 200

\* C4: every transport session a check opened is closed by the time the
\* check returns, on every exit path: no finished check has its session
\* still open.
C4_SessionClosedOnReturn ==
    \A r \in Requests :
       (req[r].pc = "done" /\ req[r].writer # 0) =>
          sessions[req[r].writer].state # "open"

\* C5: on a mock miss the check examines the fetched channels in the order
\* the switch returned them and stops at the first the matcher accepts: the
\* channel id returned is the identifying field of the earliest matching
\* channel, and connected=false is returned exactly when none matches.
C5_FirstMatchWins ==
    \A r \in Requests :
       (Answered(r) /\ ~req[r].hit) =>
          IF Matching(r) = {}
          THEN ~req[r].connected /\ req[r].channel_id = None
          ELSE LET first == CHOOSE i \in Matching(r) : \A j \in Matching(r) : i <= j
               IN /\ req[r].connected
                  /\ req[r].channel_id = DictGet(req[r].channels[first], K_id)

\* C5 happens: two fetched channels with different identifying fields match
\* and the check returned the earlier one's
C5_Witness ==
    \E r \in Requests :
       /\ Answered(r)
       /\ ~req[r].hit
       /\ req[r].connected
       /\ \E i, j \in Matching(r) :
             /\ i < j
             /\ \A k \in Matching(r) : i <= k
             /\ req[r].channel_id = DictGet(req[r].channels[i], K_id)
             /\ req[r].channel_id # DictGet(req[r].channels[j], K_id)

\* C6: in every result of a check, connected=true holds if and only if the
\* channel id is present: a connected result carries the matched channel's
\* identifying field or a mock-prefixed id, a result that is not connected
\* carries no identifier.
C6_ConnectedIffChannelId ==
    \A r \in Requests :
       Answered(r) => (req[r].connected <=> req[r].channel_id # None)

\* The messages of one AMI session, in the order get_asterisk_channels
\* writes them
SessionScript == <<"Login", "CoreShowChannels", "Logoff">>

\* C7: the mock registry is consulted before the switch: a check that hits
\* it opens no transport session and sends no protocol message; a check that
\* misses it calls for one session, its own, which no other check shares or
\* uses again.
C7_OwnSession ==
    /\ \A r \in Requests :
          /\ MockHit(r) =>
                /\ req[r].opens = 0
                /\ req[r].writer = 0
                /\ \A s \in 1..Len(sessions) : sessions[s].owner # r
          /\ (req[r].pc # "idle" /\ ~req[r].hit) =>
                /\ req[r].opens = 1
                /\ Cardinality({s \in 1..Len(sessions) : sessions[s].owner = r}) <= 1
                /\ req[r].writer # 0 => sessions[req[r].writer].owner = r
          /\ (req[r].pc \notin {"idle", "open"} /\ ~req[r].hit
                /\ req[r].fetch # "connect_failed") => req[r].writer # 0
          /\ \A r2 \in Requests \ {r} :
                req[r].writer # 0 => req[r2].writer # req[r].writer
    /\ \A s \in 1..Len(sessions) :
          /\ Len(sessions[s].sent) <= Len(SessionScript)
          /\ sessions[s].sent = SubSeq(SessionScript, 1, Len(sessions[s].sent))

\* C7 happens: two checks that missed are under way at once, each on a
\* session of its own that is open, while the registry holds numbers
C7_Witness ==
    /\ mock_store # EmptyStore
    /\ req[1].pc \notin {"idle", "open", "done"}
    /\ req[2].pc \notin {"idle", "open", "done"}
    /\ req[1].writer # req[2].writer
    /\ sessions[req[1].writer].state = "open"
    /\ sessions[req[2].writer].state = "open"
    /\ sessions[req[1].writer].owner = 1
    /\ sessions[req[2].writer].owner = 2

\* A call of the helper fn has returned
Called(fn) == resp.op = "call" /\ resp.fn = fn /\ resp.returned

\* C11: a token "a:b" whose normalized endpoints have the same number of
\* digits expands to exactly the integers from a to b inclusive, ascending,
\* each padded with zeros to that length; a token whose endpoints differ in
\* length is not expanded and yields the one literal normalize(token); a
\* token without a separator yields normalize(token).
C11_RangeExpansion ==
    Called("parse_number_ranges") =>
       LET token == resp.args[1][1]
           seps == {i \in 1..Len(token) : token[i] = ":"}
           out == resp.out
       IN IF seps = {}
          THEN out = Returned(<<SelectSeq(token, IsDigit)>>)
          ELSE Cardinality(seps) = 1 =>
                  LET c == CHOOSE i \in seps : TRUE
                      a == SelectSeq(SubSeq(token, 1, c - 1), IsDigit)
                      b == SelectSeq(SubSeq(token, c + 1, Len(token)), IsDigit)
                  IN IF Len(a) # Len(b)
                     THEN out = Returned(<<SelectSeq(token, IsDigit)>>)
                     ELSE Len(a) > 0 =>
                             /\ ~out.raised
                             /\ Len(out.value) = IF ToInt(b) >= ToInt(a)
                                                 THEN ToInt(b) - ToInt(a) + 1 ELSE 0
                             /\ \A i \in 1..Len(out.value) :
                                   /\ Len(out.value[i]) = Len(a)
                                   /\ \A j \in 1..Len(a) : IsDigit(out.value[i][j])
                                   /\ ToInt(out.value[i]) = ToInt(a) + i - 1

\* C11 happens: "0098:0103" was expanded, to six numbers of four digits
C11_Witness ==
    /\ Called("parse_number_ranges")
    /\ resp.args[1] = <<(<<"0","0","9","8">> \o COLON \o <<"0","1","0","3">>)>>
    /\ resp.out.value = << <<"0","0","9","8">>, <<"0","0","9","9">>,
                           <<"0","1","0","0">>, <<"0","1","0","1">>,
                           <<"0","1","0","2">>, <<"0","1","0","3">> >>

\* The entry is older than the TTL at time t
TooOld(entry, t) == t - entry.timestamp > MOCK_TIMEOUT_MINUTES

\* C12: expiry runs at the start of every public registry operation (put,
\* check, clear, status, mock disconnect), so none acts on or counts an entry
\* older than the TTL: the count clear returns includes no expired entry, a
\* put leaves no expired entry behind, and status lists only entries that
\* have not expired.
C12_ExpiryBeforeEveryOperation ==
    [][/\ ClearStep =>
             resp'.count =
                Cardinality({k \in DOMAIN mock_store : ~TooOld(mock_store[k], now)})
       /\ (nops' = nops + 1 /\ resp'.op = "mock-connect" /\ resp'.status = 200) =>
             \A k \in DOMAIN mock_store' : ~TooOld(mock_store'[k], now)
       /\ (nops' = nops + 1 /\ resp'.op = "mock-status" /\ resp'.status = 200) =>
             /\ \A m \in resp'.mocks : now - m.created_at <= MOCK_TIMEOUT_MINUTES
             /\ \A k \in DOMAIN mock_store' : ~TooOld(mock_store'[k], now)]_vars

\* The runs of 7 or more digits in the field values of a record
ValueRuns(channel) ==
    LET values == UNION {IF channel[i].nested
                         THEN {channel[i].sub[j].val : j \in 1..Len(channel[i].sub)}
                         ELSE {channel[i].val} : i \in 1..Len(channel)}
    IN UNION {{SubSeq(v, r[1], r[2]) : r \in DigitRuns(v)} : v \in values}

\* C13: without a caller-id filter the matcher returns true for a record
\* and a target if and only if some maximal run of 7 or more digits in the
\* record's field values ends in the trailing 7 digits of the normalized
\* target; the field does not matter, and field names are no part of the
\* text searched.
C13_MatchIffRunInValues ==
    Called("match_channel") =>
       (resp.out <=> \E run \in ValueRuns(resp.args[1]) :
                        KeyOf(run) = KeyOf(resp.args[2]))

\* C14: when a check is given a caller id, a channel matches only if, past
\* the match of the dialed number, the trailing 7 digits of its caller
\* number are those of the caller id: a check answered from the switch as
\* connected names a channel with that caller number.
C14_CallerFilter ==
    \A r \in Requests :
       (/\ Answered(r)
        /\ ~req[r].hit
        /\ req[r].caller_id # None
        /\ req[r].connected) =>
          \E i \in 1..Len(req[r].channels) :
             LET channel == req[r].channels[i]
             IN /\ DictGet(channel, K_id) = req[r].channel_id
                /\ HasKey(channel, K_caller)
                /\ KeyOf(DictGet(ItemOf(channel, K_caller).sub, K_number))
                      = KeyOf(req[r].caller_id)

\* The step is a request to the handler op with the key x_api_key
SyncStep(op, x_api_key) ==
    /\ nops' = nops + 1
    /\ resp'.op = op
    /\ resp'.x_api_key = x_api_key

\* The step is the start of the check in slot r with the key x_api_key
CheckStep(r, x_api_key) ==
    /\ req[r].pc = "idle"
    /\ req'[r].pc # "idle"
    /\ req'[r].x_api_key = x_api_key

\* The step leaves the mock registry and the transport sessions as they are
Untouched == mock_store' = mock_store /\ sessions' = sessions

\* C15: a request with a key that is neither the normal nor the elevated key
\* is rejected (401) by check and disconnect; put, clear and status are
\* rejected unless the elevated key is presented; a rejected request changes
\* nothing in the mock registry and opens no transport session; a request
\* with the key its handler asks for is not rejected.
C15_KeyDiscipline ==
    /\ [][\A x_api_key \in Keys :
            /\ \A op \in {"mock-connect", "clear-mocks", "mock-status"} :
                  SyncStep(op, x_api_key) =>
                     IF x_api_key = DEV_API_KEY THEN resp'.status # 401
                     ELSE resp'.status = 401 /\ Untouched
            /\ SyncStep("disconnect-call", x_api_key) =>
                  IF x_api_key \in {API_KEY, DEV_API_KEY} THEN resp'.status # 401
                  ELSE resp'.status = 401 /\ Untouched
            /\ \A r \in Requests :
                  CheckStep(r, x_api_key) =>
                     IF x_api_key \in {API_KEY, DEV_API_KEY} THEN req'[r].status # 401
                     ELSE /\ req'[r].status = 401
                          /\ req'[r].pc = "done"
                          /\ Untouched]_vars
    /\ [](\A r \in Requests :
            req[r].status = 401 =>
               /\ req[r].pc = "done"
               /\ req[r].opens = 0
               /\ req[r].writer = 0
               /\ \A s \in 1..Len(sessions) : sessions[s].owner # r)

\* C15 happens: with numbers in the registry, a clear with the normal key
\* and a check with neither key were both rejected
C15_Witness ==
    /\ mock_store # EmptyStore
    /\ resp.op = "clear-mocks"
    /\ resp.x_api_key = API_KEY
    /\ resp.status = 401
    /\ req[1].pc = "done"
    /\ req[1].x_api_key = WRONG_KEY
    /\ req[1].status = 401
    /\ sessions = <<>>

\* C16: the parser emits a block as a record only if the block holds the
\* identifying field: every record of its output has an id, and a block
\* without one (truncated, partial, or not a channel event) is dropped.
C16_EveryRecordHasId ==
    Called("parse_ami_channels") =>
       \A i \in 1..Len(resp.out) : HasKey(resp.out[i], K_id)

\* C17: for a response made of a preamble, N channel event blocks and the
\* completion event, the parser returns exactly N records, one for each
\* reported channel in the order of the blocks; the preamble and the
\* completion event give no record.
C17_OneRecordPerChannel ==
    (Called("parse_ami_channels") /\ resp.args[2] # None) =>
       /\ Len(resp.out) = Len(resp.args[2])
       /\ \A i \in 1..Len(resp.args[2]) :
             i <= Len(resp.out) => DictGet(resp.out[i], K_id) = resp.args[2][i]

\* C18: the login is read in a bounded loop that accumulates what arrives:
\* it is declared failed only on a negative outcome or when no outcome came;
\* when the switch sends the positive outcome the login succeeds however
\* the banner and the answer are split across reads, so a login that failed
\* after bytes were read was not one the switch accepted.
C18_LoginSurvivesSplitReads ==
    \A r \in Requests :
       (req[r].pc = "login_closed" /\ SessionOf(r).accepts) =>
          req[r].login_response = <<>>

\* The step sends the message on session s
Sends(s, message) ==
    /\ Len(sessions'[s].sent) = Len(sessions[s].sent) + 1
    /\ sessions'[s].sent[Len(sessions'[s].sent)] = message

\* C19: within one session the login is the first message sent; the
\* list-channels action is sent only after a positive login outcome was
\* read, never after a failed login; the logoff is sent only after the read
\* loop of the fetch has ended and before the transport is closed; nothing
\* is sent or read on a session after it is closed.
C19_StepOrder ==
    /\ [][\A s \in 1..Len(sessions) :
            LET owner == sessions[s].owner
            IN /\ Sends(s, "CoreShowChannels") =>
                     /\ req[owner].pc = "login_read"
                     /\ Contains(req'[owner].login_response, SUCCESS)
                     /\ sessions[s].state = "open"
               /\ Sends(s, "Logoff") =>
                     /\ req[owner].pc = "channels_read"
                     /\ req'[owner].pc = "logoff_drain"
                     /\ sessions[s].state = "open"
                     /\ sessions'[s].state = "open"
               /\ sessions[s].state # "open" => sessions'[s] = sessions[s]]_vars
    /\ [](\A s \in 1..Len(sessions) :
            /\ sessions[s].sent # <<>>
            /\ sessions[s].sent = SubSeq(SessionScript, 1, Len(sessions[s].sent))
            /\ req[sessions[s].owner].pc = "login_closed" =>
                  sessions[s].sent = <<"Login">> /\ sessions[s].state = "closed"
            /\ req[sessions[s].owner].fetch = "login_failed" =>
                  sessions[s].sent = <<"Login">> /\ sessions[s].state = "closed"
            /\ sessions[s].state = "closed" =>
                  sessions[s].sent \in {<<"Login">>, SessionScript})

\* C19 happens: one session went through login, list-channels and logoff
\* and was closed, another was closed after its login failed
C19_Witness ==
    \E s1, s2 \in 1..Len(sessions) :
       /\ sessions[s1].state = "closed"
       /\ sessions[s1].sent = SessionScript
       /\ req[sessions[s1].owner].fetch = "ok"
       /\ sessions[s2].state = "closed"
       /\ sessions[s2].sent = <<"Login">>
       /\ req[sessions[s2].owner].fetch = "login_failed"

\* The step is a turn of the read loop of the check in slot r that returned
\* from its read
LoopTurn(r) ==
    /\ req[r].pc = "channels_read"
    /\ req'[r] # req[r]
    /\ req'[r].pc # "done"

\* The read of the turn returned nothing
ReadEmpty(r) == req'[r].channels_data = req[r].channels_data

LoggedIn(r) ==
    /\ req[r].writer # 0
    /\ Len(SessionOf(r).sent) >= 2

\* C21: a failure during the fetch itself, after a successful login, is
\* degraded to zero channels retrieved and is not propagated: the check
\* returns connected=false with no identifier and reports no internal
\* failure.
C21_FetchFailureDegraded ==
    \A r \in Requests :
       (req[r].pc = "done" /\ req[r].fetch = "error" /\ LoggedIn(r)) =>
          /\ req[r].channels = <<>>
          /\ req[r].status = 200
          /\ req[r].connected = FALSE
          /\ req[r].channel_id = None
          /\ req[r].message = "Call not found on Asterisk server"

\* C21 happens: a check read its channels to the end, wrote the logoff, and
\* then its transport failed
C21_Witness ==
    \E r \in Requests :
       /\ req[r].pc = "done"
       /\ req[r].fetch = "error"
       /\ LoggedIn(r)
       /\ SessionOf(r).sent = SessionScript
       /\ SessionOf(r).state = "lost"
       /\ req[r].status = 200
       /\ ~req[r].connected

\* The step is a put that was carried out
PutStep ==
    /\ nops' = nops + 1
    /\ resp'.op = "mock-connect"
    /\ resp'.status = 200

\* C22: the registry holds at most one entry per key (trailing 7 digits)
\* and the last write wins: a put of a number whose key is already stored
\* replaces the stored original number and resets the creation time, so the
\* entry expires TTL after the latest put, not after the first one.
C22_LastWriteWins ==
    /\ [][PutStep =>
            LET numbers == resp'.numbers
                keys == {KeyOf(numbers[i]) : i \in 1..Len(numbers)}
            IN /\ DOMAIN mock_store' = DOMAIN mock_store \cup keys
               /\ \A i \in 1..Len(numbers) :
                     LET same == {j \in 1..Len(numbers) :
                                     KeyOf(numbers[j]) = KeyOf(numbers[i])}
                         last == CHOOSE j \in same : \A j2 \in same : j2 <= j
                     IN mock_store'[KeyOf(numbers[i])] =
                           [timestamp |-> now, original_number |-> numbers[last]]
               /\ \A k \in DOMAIN mock_store \ keys :
                     mock_store'[k] = mock_store[k]]_vars
    /\ [][\A r \in Requests :
            CheckStep(r, API_KEY) =>
               LET k == KeyOf(req'[r].dialed_number)
               IN req'[r].hit <=>
                     /\ k \in DOMAIN mock_store
                     /\ now - mock_store[k].timestamp <= MOCK_TIMEOUT_MINUTES]_vars
    /\ [](\A k1, k2 \in DOMAIN mock_store :
            KeyOf(mock_store[k1].original_number) =
               KeyOf(mock_store[k2].original_number) => k1 = k2)

\* C22 happens: a range was put at time 0, one of its numbers was put again
\* one TTL later, and one more TTL later a check of that number is a mock
\* hit while the other numbers of the range have expired
C22_Witness ==
    /\ now = 2 * MOCK_TIMEOUT_MINUTES
    /\ [number |-> N_5550100, t |-> 0, range |-> TRUE] \in puts
    /\ MockHit(1)
    /\ req[1].dialed_number = N_5550101
    /\ DOMAIN mock_store = {N_5550101}
    /\ mock_store[N_5550101] =
          [timestamp |-> MOCK_TIMEOUT_MINUTES, original_number |-> N_5550101]

\* C23: in every reachable state every key of the mock registry is a
\* digit-only string of length at most 7 and equals the trailing 7 digits of
\* the original number stored in its entry (the whole normalized number when
\* it has fewer than 7 digits); hence a key never contains the "-" separator
\* used inside mock channel ids.
C23_KeysAreTrailingDigits ==
    \A k \in DOMAIN mock_store :
       LET digits == SelectSeq(mock_store[k].original_number, IsDigit)
       IN /\ \A i \in 1..Len(k) : k[i] \in Digits
          /\ Len(k) <= 7
          /\ k = IF Len(digits) < 7 THEN digits
                 ELSE SubSeq(digits, Len(digits) - 6, Len(digits))
          /\ ~Contains(k, DASH)
          /\ MockNumber(MOCK_PREFIX \o k \o DASH \o <<"0">>) = k

\* C23 happens: the registry holds a number of more than 7 digits under its
\* trailing 7, and a number of fewer than 7 digits under all of them
C23_Witness ==
    /\ {N_5550101, N_555} \subseteq DOMAIN mock_store
    /\ Len(mock_store[N_5550101].original_number) > 7
    /\ mock_store[N_555].original_number = N_555

IsSeparator(c) == c = ":"

\* A token that cannot be expanded: more than one range separator, or one
\* separator between endpoints that are both empty after normalization
Unexpandable(token) ==
    LET separators == Len(SelectSeq(token, IsSeparator))
    IN \/ separators > 1
       \/ /\ separators = 1
          /\ SelectSeq(token, IsDigit) = <<>>

\* C24: put is all-or-nothing on error: when any token of a put request
\* cannot be expanded, the request fails with an internal-error outcome and
\* the mock registry is exactly as it was before the request; no entry from
\* the request's other, well-formed tokens is inserted.
C24_PutAllOrNothing ==
    [][(/\ nops' = nops + 1
        /\ resp'.op = "mock-connect"
        /\ resp'.x_api_key = DEV_API_KEY
        /\ \E i \in 1..Len(resp'.request) : Unexpandable(resp'.request[i]))
         => /\ resp'.status = 500
            /\ mock_store' = mock_store]_vars

\* C24 happens: a put of a well-formed number, a token with two separators
\* and another well-formed number failed, and the registry holds what it
\* held before and neither of the two numbers
C24_Witness ==
    /\ resp.op = "mock-connect"
    /\ resp.status = 500
    /\ resp.request = <<N_555_0199, T_two_separators, N_555>>
    /\ DOMAIN mock_store = {N_5550101}

\* The keys of the numbers of the range put
RangeKeys == {N_5550100, N_5550101, N_5550102}

\* Of the numbers of the range, a set of keys holds all or none
Whole(keys) == keys \cap RangeKeys \in {{}, RangeKeys}

\* The check in slot r is suspended on the switch
Suspended(r) == req[r].pc \notin {"idle", "done"}

\* C25: under any interleaving of concurrent requests on the event loop the
\* registry part of each operation is atomic: at no point where another
\* handler can run, and in no status answer, does the registry hold only
\* some of the numbers of a put, or what a clear or an expiry removed only in
\* part; a check suspended on the switch has taken its mock decision, so a
\* put or clear that runs during the suspension does not change its result.
C25_RegistryStepsAtomic ==
    /\ [](/\ Whole(DOMAIN mock_store)
          /\ \A k1, k2 \in RangeKeys \cap DOMAIN mock_store :
                mock_store[k1].timestamp = mock_store[k2].timestamp
          /\ (resp.op = "mock-status" /\ resp.status = 200) =>
                Whole({m.number : m \in resp.mocks}))
    /\ [][/\ ClearStep => mock_store' = EmptyStore
          /\ \A r \in Requests :
                /\ CheckStep(r, API_KEY) =>
                      /\ Whole(DOMAIN mock_store')
                      /\ req'[r].hit <=>
                            KeyOf(req'[r].dialed_number) \in DOMAIN mock_store'
                      /\ req'[r].hit <=> req'[r].pc = "done"
                /\ Suspended(r) =>
                      /\ ~req'[r].hit
                      /\ nops' # nops => req'[r] = req[r]
                      /\ req'[r].pc = "done" =>
                            /\ req'[r].status = 200
                            /\ ~StartsWith(req'[r].channel_id, MOCK_PREFIX)]_vars
    /\ [](\A r1, r2 \in Requests :
            (/\ req[r1].pc = "done" /\ ~req[r1].hit
             /\ req[r2].pc = "done" /\ ~req[r2].hit
             /\ req[r1].dialed_number = req[r2].dialed_number) =>
                /\ req[r1].status = req[r2].status
                /\ req[r1].connected = req[r2].connected
                /\ req[r1].channel_id = req[r2].channel_id)

\* C25 happens: two checks of a number missed the registry; one returned,
\* then the range holding the number was put while the other was still
\* suspended on the switch
C25_Witness ==
    /\ req[1].pc = "closing"
    /\ ~req[1].key_stored
    /\ req[2].pc = "done"
    /\ ~req[2].hit
    /\ req[1].dialed_number = N_5550101
    /\ req[2].dialed_number = N_5550101
    /\ RangeKeys \subseteq DOMAIN mock_store
====
